---- MODULE Spec2Model ----
(***************************************************************************)
(* Stock exchange backend: HTTP API (main.py), SQLite tables (database.py), *)
(* request validation (schemas.py), authentication (dependencies.py) and   *)
(* the RabbitMQ publisher / consumer (messaging.py, consumer.py).          *)
(*                                                                         *)
(* Ids are uuid4 strings in the code; the model draws them as fresh        *)
(* naturals (1, 2, ...), so the id order of orders is their commit order.  *)
(* Tickers are tuples of one-character strings so that the ticker regex    *)
(* is computed, not assumed.                                               *)
(***************************************************************************)
EXTENDS Naturals, Sequences, FiniteSets, TLC

\* ------------------------------------------------------------------ bounds

\* Most orders (market + limit) committed in one behaviour.
MaxOrders == 2

\* ------------------------------------------------------------------ inputs

\* Keys that get registered, and keys that order requests present.
RegisterKeyInputs == {"k1"}
ApiKeyInputs == {"k1", "k2"}
TickerInputs == {<<"A", "A">>, <<"a">>}
QtyInputs == {0, 1}
PriceInputs == {0, 1}
Consumers == {"c1", "c2"}

\* ------------------------------------------------------------------ enums

Direction == {"BUY", "SELL"}
OrderStatus == {"NEW", "EXECUTED", "PART_EXECUTED", "CANCELLED"}

UpperCase ==
    {"A", "B", "C", "D", "E", "F", "G", "H", "I", "J", "K", "L", "M",
     "N", "O", "P", "Q", "R", "S", "T", "U", "V", "W", "X", "Y", "Z"}

\* ------------------------------------------------------------------ state

VARIABLES
    users,          \* table users: set of [id, api_key]
    instruments,    \* table instruments: set of [id, ticker]
    market_orders,  \* table market_orders: id -> row
    limit_orders,   \* table limit_orders: id -> row
    topology,       \* broker: "none" | "queues" | "full" (exchange, queues, bindings)
    connected,      \* API process: rabbitmq.is_connected()
    market_q,       \* broker queue market_orders
    limit_q,        \* broker queue limit_orders
    cstate,         \* consumer process: "stopped" | "idle" | "busy"
    cur,            \* consumer process: the delivery its callback is handling
    req,            \* the order request the API event loop is serving
    processed,      \* history: order ids a handler has looked up
    last_result,    \* history: how the last settled delivery was settled
    threads,        \* API threadpool: each worker's POST /instruments call
    user_threads,   \* API threadpool: each worker's POST /users call
    conn            \* a process's call of RabbitMQConnection.connect

vars == <<users, instruments, market_orders, limit_orders, topology, connected,
          market_q, limit_q, cstate, cur, req, processed, last_result, threads,
          user_threads, conn>>

\* The threadpool workers that run the sync routes of the API.
Threads == {"t1", "t2"}

\* A worker with no call in progress and no response sent yet.
NoCall == [pc |-> "idle", ticker |-> <<>>, response |-> "none"]

NoUserCall == [pc |-> "idle", api_key |-> "", response |-> "none"]

\* connect() not called yet: self.connection = None, self.channel = None
NoConnect ==
    [pc |-> "idle", outcomes |-> <<>>, sleeps |-> 0, result |-> "none",
     connection |-> FALSE, channel |-> FALSE]

NoBody ==
    [order_id |-> 0, order_type |-> "none", user_id |-> 0, ticker |-> <<>>,
     direction |-> "BUY", qty |-> 0, price |-> 0, timestamp |-> 0]

NoDelivery == [queue |-> "none", body |-> NoBody]

NoReq ==
    [stage |-> "idle", kind |-> "none", api_key |-> "", ticker |-> <<>>,
     direction |-> "BUY", qty |-> 0, price |-> 0, order_id |-> 0,
     orders_before |-> 0, published |-> FALSE, status |-> "none",
     responses |-> <<>>]

\* ------------------------------------------------------------------ schemas.py

\* InstrumentCreate.check_ticker: fullmatch(r'^[A-Z]{2,10}$', value)
check_ticker(value) ==
    /\ Len(value) >= 2
    /\ Len(value) <= 10
    /\ \A i \in 1..Len(value) : value[i] \in UpperCase

\* check_qty with the comparison off by one: lets qty 0 through.
check_qty_off_by_one(value) == ~(value < 0)

\* MarketOrderCreate.check_qty / LimitOrderCreate.check_qty: rejects value < 1
check_qty(value) == ~(value < 1)

\* LimitOrderCreate.check_price: rejects value <= 0
check_price(value) == ~(value <= 0)

\* ------------------------------------------------------------------ dependencies.py

get_user_by_api_key(api_key) == {u \in users : u.api_key = api_key}

get_instrument_by_ticker(ticker) == {i \in instruments : i.ticker = ticker}

\* ------------------------------------------------------------------ database.py

\* The column default set to the wrong member of the enum.
WrongDefaultStatus == "EXECUTED"

\* Column(SQLEnum(OrderStatus), default=OrderStatus.NEW)
DefaultStatus == "NEW"

OrderCount == Cardinality(DOMAIN market_orders) + Cardinality(DOMAIN limit_orders)

\* default=lambda: str(uuid4()): a fresh id
NewOrderId == OrderCount + 1

\* default=datetime.utcnow, as a logical clock that ticks with every insert
utcnow == OrderCount + 1

\* The row added to the session twice, under two ids.
CommitTwice(table, id, row) == (id :> row) @@ ((id + 100) :> row) @@ table

\* db.add(row) without the db.commit(): the row never reaches the table.
CommitNothing(table, id, row) == table

\* db.add(row); db.commit()
Commit(table, id, row) == (id :> row) @@ table

MarketOrderDB(user_id, instrument_id, direction, qty) ==
    [status |-> DefaultStatus, user_id |-> user_id, instrument_id |-> instrument_id,
     direction |-> direction, qty |-> qty, timestamp |-> utcnow]

LimitOrderDB(user_id, instrument_id, direction, qty, price) ==
    [status |-> DefaultStatus, user_id |-> user_id, instrument_id |-> instrument_id,
     direction |-> direction, qty |-> qty, price |-> price, timestamp |-> utcnow]

\* ------------------------------------------------------------------ Init

Init ==
    /\ users = {}
    /\ instruments = {}
    /\ market_orders = <<>>
    /\ limit_orders = <<>>
    /\ topology = "none"
    /\ connected \in BOOLEAN        \* startup_event: rabbitmq.connect(), result ignored
    /\ market_q = <<>>
    /\ limit_q = <<>>
    /\ cstate = [c \in Consumers |-> "stopped"]
    /\ cur = [c \in Consumers |-> NoDelivery]
    /\ req = NoReq
    /\ processed = {}
    /\ last_result = "none"
    /\ threads = [t \in Threads |-> NoCall]
    /\ user_threads = [t \in Threads |-> NoUserCall]
    /\ conn = NoConnect

\* ------------------------------------------------------------------ main.py: users, instruments

\* POST /users: 400 "API key already exists" leaves the table alone
create_user(api_key) ==
    /\ users' = IF get_user_by_api_key(api_key) # {}
                THEN users
                ELSE users \cup {[id |-> Cardinality(users) + 1, api_key |-> api_key]}
    /\ UNCHANGED <<conn, user_threads, threads, instruments, market_orders, limit_orders, topology, connected,
                   market_q, limit_q, cstate, cur, req, processed, last_result>>

\* POST /instruments: 422 on a malformed ticker, 400 "Ticker already exists"
create_instrument(ticker) ==
    /\ instruments' = IF ~check_ticker(ticker) \/ get_instrument_by_ticker(ticker) # {}
                      THEN instruments
                      ELSE instruments \cup
                             {[id |-> Cardinality(instruments) + 1, ticker |-> ticker]}
    /\ UNCHANGED <<conn, user_threads, threads, users, market_orders, limit_orders, topology, connected,
                   market_q, limit_q, cstate, cur, req, processed, last_result>>

\* ------------------------------------------------------------------ main.py: orders

\* The two order handlers are `async def` without an await: the event loop
\* serves one of them at a time, from its first line to its return.
ApiFree == req.stage \in {"idle", "done"}

Rejected(code) ==
    [NoReq EXCEPT !.stage = "done", !.responses = <<code>>,
                  !.orders_before = OrderCount]

\* Depends(authenticate_user) raises 401 while the dependencies are solved,
\* the body's validation errors (422) are raised after that, and the
\* handler's own 404 comes last.
Rejection(api_key, ticker, valid) ==
    IF get_user_by_api_key(api_key) = {} THEN "401"
    ELSE IF ~valid THEN "422"
    ELSE IF get_instrument_by_ticker(ticker) = {} THEN "404"
    ELSE "none"

\* POST /orders/market, up to db.refresh(db_order); the tables hold at most
\* cap orders.
create_market_order_upto(cap, api_key, ticker, direction, qty) ==
    /\ ApiFree
    /\ LET code == Rejection(api_key, ticker, check_qty(qty)) IN
       IF code # "none"
       THEN /\ req' = Rejected(code)
            /\ UNCHANGED market_orders
       ELSE LET user == CHOOSE u \in get_user_by_api_key(api_key) : TRUE
                instrument == CHOOSE i \in get_instrument_by_ticker(ticker) : TRUE
                id == NewOrderId
            IN  /\ OrderCount < cap
                /\ market_orders' =
                     Commit(market_orders, id,
                            MarketOrderDB(user.id, instrument.id, direction, qty))
                /\ req' = [stage |-> "committed", kind |-> "market",
                           api_key |-> api_key, ticker |-> instrument.ticker,
                           direction |-> direction, qty |-> qty, price |-> 0,
                           order_id |-> id, orders_before |-> OrderCount,
                           published |-> FALSE,
                           status |-> MarketOrderDB(user.id, instrument.id, direction, qty).status,
                           responses |-> <<>>]
    /\ UNCHANGED <<conn, user_threads, threads, users, instruments, limit_orders, topology, connected,
                   market_q, limit_q, cstate, cur, processed, last_result>>

\* POST /orders/limit, up to db.refresh(db_order); the tables hold at most
\* cap orders.
create_limit_order_upto(cap, api_key, ticker, direction, qty, price) ==
    /\ ApiFree
    /\ LET code == Rejection(api_key, ticker, check_qty(qty) /\ check_price(price)) IN
       IF code # "none"
       THEN /\ req' = Rejected(code)
            /\ UNCHANGED limit_orders
       ELSE LET user == CHOOSE u \in get_user_by_api_key(api_key) : TRUE
                instrument == CHOOSE i \in get_instrument_by_ticker(ticker) : TRUE
                id == NewOrderId
            IN  /\ OrderCount < cap
                /\ limit_orders' =
                     Commit(limit_orders, id,
                            LimitOrderDB(user.id, instrument.id, direction, qty, price))
                /\ req' = [stage |-> "committed", kind |-> "limit",
                           api_key |-> api_key, ticker |-> instrument.ticker,
                           direction |-> direction, qty |-> qty, price |-> price,
                           order_id |-> id, orders_before |-> OrderCount,
                           published |-> FALSE,
                           status |-> LimitOrderDB(user.id, instrument.id, direction, qty, price).status,
                           responses |-> <<>>]
    /\ UNCHANGED <<conn, user_threads, threads, users, instruments, market_orders, topology, connected,
                   market_q, limit_q, cstate, cur, processed, last_result>>

create_market_order(api_key, ticker, direction, qty) ==
    create_market_order_upto(MaxOrders, api_key, ticker, direction, qty)

create_limit_order(api_key, ticker, direction, qty, price) ==
    create_limit_order_upto(MaxOrders, api_key, ticker, direction, qty, price)

\* The committed row the request is about (db_order after db.refresh).
db_order == IF req.kind = "market" THEN market_orders[req.order_id]
            ELSE limit_orders[req.order_id]

\* OrderMessage(order_id=db_order.id, order_type=..., ...)
OrderMessage ==
    [order_id |-> req.order_id, order_type |-> req.kind,
     user_id |-> db_order.user_id, ticker |-> req.ticker,
     direction |-> db_order.direction, qty |-> db_order.qty,
     price |-> IF req.kind = "limit" THEN db_order.price ELSE 0,
     timestamp |-> db_order.timestamp]

\* A publisher that sends every order with the key 'market'.
AlwaysMarketKey(order_message) == "market"

\* routing_key = 'market' if order_message.order_type == 'market' else 'limit'
RoutingKey(order_message) ==
    IF order_message.order_type = "market" THEN "market" ELSE "limit"

\* A publish_order that reports success whatever happened.
PublishAlwaysTrue(connect_ok, publish_ok) == TRUE

\* publish_order's return value: False from the failed reconnect and from the
\* except branch, True after basic_publish returned.
PublishReturns(connect_ok, publish_ok) == (connected \/ connect_ok) /\ publish_ok

\* order_publisher.publish_order(order_message).  connect_ok: whether
\* rabbitmq.connect() succeeds when it is tried; publish_ok: whether
\* basic_publish returns without raising.  A publish to an exchange the
\* broker does not know makes the broker drop the message and close the channel.
publish_order(connect_ok, publish_ok) ==
    /\ req.stage = "committed"
    /\ req' = [req EXCEPT !.stage = "published",
                           !.published = PublishReturns(connect_ok, publish_ok)]
    /\ IF ~connected /\ ~connect_ok
       THEN UNCHANGED <<connected, market_q, limit_q>>
       ELSE IF ~publish_ok \/ topology # "full"
       THEN /\ connected' = FALSE
            /\ UNCHANGED <<market_q, limit_q>>
       ELSE /\ connected' = TRUE
            /\ IF RoutingKey(OrderMessage) = "market"
               THEN /\ market_q' = Append(market_q, OrderMessage)
                    /\ UNCHANGED limit_q
               ELSE /\ limit_q' = Append(limit_q, OrderMessage)
                    /\ UNCHANGED market_q
    /\ UNCHANGED <<conn, user_threads, threads, users, instruments, market_orders, limit_orders, topology,
                   cstate, cur, processed, last_result>>

\* return MarketOrder(...) / LimitOrder(...): the 200 response.  Only what the
\* response carries is kept of the request.
return_order ==
    /\ req.stage = "published"
    /\ req' = [NoReq EXCEPT !.stage = "done", !.kind = req.kind,
                            !.order_id = req.order_id,
                            !.orders_before = req.orders_before,
                            !.status = req.status,
                            !.responses = <<"200">>]
    /\ UNCHANGED <<conn, user_threads, threads, users, instruments, market_orders, limit_orders, topology,
                   connected, market_q, limit_q, cstate, cur, processed, last_result>>

\* ------------------------------------------------------------------ messaging.py: topology

\* OrderPublisher.setup_exchange: exchange, both queues, both bindings.
\* No code of the repository calls it; an operator's script does.
setup_exchange(connect_ok) ==
    /\ topology' = IF connect_ok THEN "full" ELSE topology
    /\ UNCHANGED <<conn, user_threads, threads, users, instruments, market_orders, limit_orders, connected,
                   market_q, limit_q, cstate, cur, req, processed, last_result>>

\* OrderConsumer.setup_consumer: the two queues only.
setup_consumer(connect_ok) ==
    /\ topology' = IF connect_ok /\ topology = "none" THEN "queues" ELSE topology
    /\ UNCHANGED <<conn, user_threads, threads, users, instruments, market_orders, limit_orders, connected,
                   market_q, limit_q, cstate, cur, req, processed, last_result>>

\* ------------------------------------------------------------------ messaging.py, consumer.py: consumer

\* python consumer.py -> OrderConsumer.start_consuming, up to the blocking
\* channel.start_consuming().  basic_consume on a queue the broker does not
\* know raises, which is logged, and the process ends.
start_consuming(c, connect_ok) ==
    /\ cstate[c] = "stopped"
    /\ cstate' = [cstate EXCEPT
                    ![c] = IF connect_ok /\ topology # "none" THEN "idle" ELSE "stopped"]
    /\ UNCHANGED <<conn, user_threads, threads, users, instruments, market_orders, limit_orders, topology,
                   connected, market_q, limit_q, cur, req, processed, last_result>>

\* The broker hands the head of a queue to a subscribed consumer, whose
\* blocking connection runs one callback at a time: the callback starts.
deliver_market(c) ==
    /\ cstate[c] = "idle"
    /\ market_q # <<>>
    /\ cur' = [cur EXCEPT ![c] = [queue |-> "market_orders", body |-> Head(market_q)]]
    /\ market_q' = Tail(market_q)
    /\ cstate' = [cstate EXCEPT ![c] = "busy"]
    /\ UNCHANGED <<conn, user_threads, threads, users, instruments, market_orders, limit_orders, topology,
                   connected, limit_q, req, processed, last_result>>

deliver_limit(c) ==
    /\ cstate[c] = "idle"
    /\ limit_q # <<>>
    /\ cur' = [cur EXCEPT ![c] = [queue |-> "limit_orders", body |-> Head(limit_q)]]
    /\ limit_q' = Tail(limit_q)
    /\ cstate' = [cstate EXCEPT ![c] = "busy"]
    /\ UNCHANGED <<conn, user_threads, threads, users, instruments, market_orders, limit_orders, topology,
                   connected, market_q, req, processed, last_result>>

\* Resting liquidity against a market order: an unfilled limit order of the
\* same instrument in the opposite direction.
OppositeLiquidity(row) ==
    {id \in DOMAIN limit_orders :
        /\ limit_orders[id].instrument_id = row.instrument_id
        /\ limit_orders[id].direction # row.direction
        /\ limit_orders[id].status \in {"NEW", "PART_EXECUTED"}}

\* A handler that looks at the book: cancels when nothing rests opposite.
MatchedStatus(row) == IF OppositeLiquidity(row) = {} THEN "CANCELLED" ELSE "EXECUTED"

\* A handler that forgets the assignment.
UnchangedStatus(row) == row.status

\* db_order.status = OrderStatus.EXECUTED
ProcessedStatus(row) == "EXECUTED"

\* A handler that also stamps the row with the time of the update.
MarketOrderRestamped(order_id) ==
    IF order_id \in DOMAIN market_orders
    THEN [market_orders EXCEPT ![order_id].status = "EXECUTED",
                               ![order_id].timestamp = utcnow]
    ELSE market_orders

\* The market_orders table after the handler's lookup, assignment and commit.
MarketOrderProcessed(order_id) ==
    IF order_id \in DOMAIN market_orders
    THEN [market_orders EXCEPT
            ![order_id].status = ProcessedStatus(market_orders[order_id])]
    ELSE market_orders

\* A limit handler copied from the market handler: marks the row executed.
LimitOrderExecuted(order_id) ==
    IF order_id \in DOMAIN limit_orders
    THEN [limit_orders EXCEPT ![order_id].status = "EXECUTED"]
    ELSE limit_orders

\* The limit_orders table after the handler's lookup: it only logs.
LimitOrderProcessed(order_id) == limit_orders

\* OrderConsumer.process_market_order: lookup, status, commit, basic_ack.
process_market_order(c) ==
    /\ cstate[c] = "busy"
    /\ cur[c].queue = "market_orders"
    /\ market_orders' = MarketOrderProcessed(cur[c].body.order_id)
    /\ processed' = processed \cup {cur[c].body.order_id}
    /\ last_result' = "ack"
    /\ cur' = [cur EXCEPT ![c] = NoDelivery]
    /\ cstate' = [cstate EXCEPT ![c] = "idle"]
    /\ UNCHANGED <<conn, user_threads, threads, users, instruments, limit_orders, topology, connected,
                   market_q, limit_q, req>>

\* OrderConsumer.process_limit_order: lookup, log, basic_ack.
process_limit_order(c) ==
    /\ cstate[c] = "busy"
    /\ cur[c].queue = "limit_orders"
    /\ limit_orders' = LimitOrderProcessed(cur[c].body.order_id)
    /\ processed' = processed \cup {cur[c].body.order_id}
    /\ last_result' = "ack"
    /\ cur' = [cur EXCEPT ![c] = NoDelivery]
    /\ cstate' = [cstate EXCEPT ![c] = "idle"]
    /\ UNCHANGED <<conn, user_threads, threads, users, instruments, market_orders, topology, connected,
                   market_q, limit_q, req>>

\* consumer.py: except KeyboardInterrupt.  The operator stops the consumer; the
\* interrupt is no Exception, so a running callback neither acks nor nacks, and
\* the broker puts the unacked delivery back at the head of its queue.
\* after_commit: the interrupt arrives after db.commit() (else before, and
\* db.close() rolls the assignment back).
keyboard_interrupt(c, after_commit) ==
    /\ cstate[c] \in {"idle", "busy"}
    /\ cstate' = [cstate EXCEPT ![c] = "stopped"]
    /\ cur' = [cur EXCEPT ![c] = NoDelivery]
    /\ market_q' = IF cur[c].queue = "market_orders"
                   THEN <<cur[c].body>> \o market_q ELSE market_q
    /\ limit_q' = IF cur[c].queue = "limit_orders"
                  THEN <<cur[c].body>> \o limit_q ELSE limit_q
    /\ market_orders' = IF cur[c].queue = "market_orders" /\ after_commit
                        THEN MarketOrderProcessed(cur[c].body.order_id)
                        ELSE market_orders
    /\ limit_orders' = IF cur[c].queue = "limit_orders" /\ after_commit
                       THEN LimitOrderProcessed(cur[c].body.order_id)
                       ELSE limit_orders
    /\ processed' = IF cstate[c] = "busy" /\ after_commit
                    THEN processed \cup {cur[c].body.order_id} ELSE processed
    /\ UNCHANGED <<conn, user_threads, threads, users, instruments, topology, connected, req, last_result>>

\* ------------------------------------------------------------------ specification

\* The order requests that are sent: those with nothing wrong, those with one
\* thing wrong (a key that is never registered, a ticker that can never be
\* listed, a qty or a price the validators refuse) and those with everything
\* wrong.  A request with two or three things wrong gets the answer of one of
\* these and takes the same step.
FaultCount(api_key, ticker, qty_ok, price_ok) ==
    (IF api_key \in RegisterKeyInputs THEN 0 ELSE 1)
      + (IF check_ticker(ticker) THEN 0 ELSE 1)
      + (IF qty_ok THEN 0 ELSE 1)
      + (IF price_ok THEN 0 ELSE 1)

MarketRequests ==
    {r \in ApiKeyInputs \X TickerInputs \X Direction \X QtyInputs :
        FaultCount(r[1], r[2], check_qty(r[4]), TRUE) \in {0, 1, 3}}

LimitRequests ==
    {r \in ApiKeyInputs \X TickerInputs \X Direction \X QtyInputs \X PriceInputs :
        FaultCount(r[1], r[2], check_qty(r[4]), check_price(r[5])) \in {0, 1, 4}}

Next ==
    \/ \E k \in RegisterKeyInputs : create_user(k)
    \/ \E t \in TickerInputs : create_instrument(t)
    \/ \E r \in MarketRequests : create_market_order(r[1], r[2], r[3], r[4])
    \/ \E r \in LimitRequests : create_limit_order(r[1], r[2], r[3], r[4], r[5])
    \/ \E connect_ok, publish_ok \in BOOLEAN : publish_order(connect_ok, publish_ok)
    \/ return_order
    \/ \E connect_ok \in BOOLEAN : setup_exchange(connect_ok)
    \/ \E connect_ok \in BOOLEAN : setup_consumer(connect_ok)
    \/ \E c \in Consumers, connect_ok \in BOOLEAN : start_consuming(c, connect_ok)
    \/ \E c \in Consumers : deliver_market(c)
    \/ \E c \in Consumers : deliver_limit(c)
    \/ \E c \in Consumers : process_market_order(c)
    \/ \E c \in Consumers : process_limit_order(c)
    \/ \E c \in Consumers, after_commit \in BOOLEAN : keyboard_interrupt(c, after_commit)

Spec == Init /\ [][Next]_vars

\* ------------------------------------------------------------------ specification: one book

\* One registered user and one listed instrument, the topology declared, the
\* API connected and one consumer subscribed: the order endpoints and the two
\* handlers then work on one book, without faults.
BookOrders == 3
BookKey == "k1"
BookTicker == <<"A", "A">>
BookQty == {5, 10}
BookPrice == {100}
BookConsumer == "c1"

InitBook ==
    /\ users = {[id |-> 1, api_key |-> BookKey]}
    /\ instruments = {[id |-> 1, ticker |-> BookTicker]}
    /\ market_orders = <<>>
    /\ limit_orders = <<>>
    /\ topology = "full"
    /\ connected = TRUE
    /\ market_q = <<>>
    /\ limit_q = <<>>
    /\ cstate = [c \in Consumers |-> IF c = BookConsumer THEN "idle" ELSE "stopped"]
    /\ cur = [c \in Consumers |-> NoDelivery]
    /\ req = NoReq
    /\ processed = {}
    /\ last_result = "none"
    /\ threads = [t \in Threads |-> NoCall]
    /\ user_threads = [t \in Threads |-> NoUserCall]
    /\ conn = NoConnect

NextBook ==
    \/ \E d \in Direction, q \in BookQty :
         create_market_order_upto(BookOrders, BookKey, BookTicker, d, q)
    \/ \E d \in Direction, q \in BookQty, p \in BookPrice :
         create_limit_order_upto(BookOrders, BookKey, BookTicker, d, q, p)
    \/ publish_order(TRUE, TRUE)
    \/ return_order
    \/ deliver_market(BookConsumer)
    \/ deliver_limit(BookConsumer)
    \/ process_market_order(BookConsumer)
    \/ process_limit_order(BookConsumer)

SpecBook == InitBook /\ [][NextBook]_vars

\* ------------------------------------------------------------------ specification: the threadpool

\* POST /instruments is a sync route: the threadpool runs calls side by side,
\* each with its own session, so the lookup of one call and its commit are
\* separate steps between which another call can commit.
PoolOrders == 1
PoolTickers == {<<"A", "A">>, <<"B", "B">>, <<"a">>}

\* A commit that inserts under a unique index that is missing.
NoUniqueIndex(ticker) == TRUE

\* ticker = Column(String, nullable=False, unique=True): the commit of a row
\* whose ticker is stored already raises IntegrityError.
UniqueTicker(ticker) == \A i \in instruments : i.ticker # ticker

\* create_instrument up to the lookup: 422 from the validator, 400 from the
\* handler, else the new row is added to the session.
instrument_lookup(t, ticker) ==
    /\ threads[t].pc = "idle"
    /\ threads' = [threads EXCEPT ![t] =
                     IF ~check_ticker(ticker)
                     THEN [pc |-> "idle", ticker |-> ticker, response |-> "422"]
                     ELSE IF get_instrument_by_ticker(ticker) # {}
                     THEN [pc |-> "idle", ticker |-> ticker, response |-> "400"]
                     ELSE [pc |-> "added", ticker |-> ticker, response |-> "none"]]
    /\ UNCHANGED <<conn, user_threads, users, instruments, market_orders, limit_orders, topology,
                   connected, market_q, limit_q, cstate, cur, req, processed,
                   last_result>>

\* db.commit(), db.refresh, return: the insert, or the unhandled
\* IntegrityError that the server answers with 500.
instrument_commit(t) ==
    /\ threads[t].pc = "added"
    /\ IF UniqueTicker(threads[t].ticker)
       THEN /\ instruments' = instruments \cup
                   {[id |-> Cardinality(instruments) + 1, ticker |-> threads[t].ticker]}
            /\ threads' = [threads EXCEPT ![t].pc = "idle", ![t].response = "200"]
       ELSE /\ UNCHANGED instruments
            /\ threads' = [threads EXCEPT ![t].pc = "idle", ![t].response = "500"]
    /\ UNCHANGED <<conn, user_threads, users, market_orders, limit_orders, topology, connected,
                   market_q, limit_q, cstate, cur, req, processed, last_result>>

InitPool ==
    /\ users = {}
    /\ instruments = {}
    /\ market_orders = <<>>
    /\ limit_orders = <<>>
    /\ topology = "full"
    /\ connected = TRUE
    /\ market_q = <<>>
    /\ limit_q = <<>>
    /\ cstate = [c \in Consumers |-> IF c = BookConsumer THEN "idle" ELSE "stopped"]
    /\ cur = [c \in Consumers |-> NoDelivery]
    /\ req = NoReq
    /\ processed = {}
    /\ last_result = "none"
    /\ threads = [t \in Threads |-> NoCall]
    /\ user_threads = [t \in Threads |-> NoUserCall]
    /\ conn = NoConnect

NextPool ==
    \/ \E t \in Threads, ticker \in PoolTickers : instrument_lookup(t, ticker)
    \/ \E t \in Threads : instrument_commit(t)
    \/ create_user(BookKey)
    \/ \E ticker \in PoolTickers, d \in Direction :
         create_market_order_upto(PoolOrders, BookKey, ticker, d, 1)
    \/ \E ticker \in PoolTickers, d \in Direction :
         create_limit_order_upto(PoolOrders, BookKey, ticker, d, 1, 1)
    \/ publish_order(TRUE, TRUE)
    \/ return_order
    \/ deliver_market(BookConsumer)
    \/ deliver_limit(BookConsumer)
    \/ process_market_order(BookConsumer)
    \/ process_limit_order(BookConsumer)

SpecPool == InitPool /\ [][NextPool]_vars

\* ------------------------------------------------------------------ POST /users in the threadpool
\* create_user is a plain def: the server runs calls side by side in worker
\* threads, each with its own session, so another call's commit can fall
\* between a call's lookup and its own commit.

\* A commit that inserts under a unique index that is missing.
NoUniqueKeyIndex(api_key) == TRUE

\* api_key = Column(String, nullable=False, unique=True): the commit of a row
\* whose api_key is stored already raises IntegrityError.
UniqueApiKey(api_key) == \A u \in users : u.api_key # api_key

\* create_user up to db.add: 400 from the handler when the key is found, else
\* the new row is added to the session.
user_lookup(t, api_key) ==
    /\ user_threads[t].pc = "idle"
    /\ user_threads' = [user_threads EXCEPT ![t] =
                          IF get_user_by_api_key(api_key) # {}
                          THEN [pc |-> "idle", api_key |-> api_key, response |-> "400"]
                          ELSE [pc |-> "added", api_key |-> api_key, response |-> "none"]]
    /\ UNCHANGED <<conn, threads, users, instruments, market_orders, limit_orders, topology,
                   connected, market_q, limit_q, cstate, cur, req, processed,
                   last_result>>

\* db.commit(), db.refresh, return: the insert, or the unhandled
\* IntegrityError that the server answers with 500.
user_commit(t) ==
    /\ user_threads[t].pc = "added"
    /\ IF UniqueApiKey(user_threads[t].api_key)
       THEN /\ users' = users \cup
                   {[id |-> Cardinality(users) + 1, api_key |-> user_threads[t].api_key]}
            /\ user_threads' = [user_threads EXCEPT ![t].pc = "idle", ![t].response = "200"]
       ELSE /\ UNCHANGED users
            /\ user_threads' = [user_threads EXCEPT ![t].pc = "idle", ![t].response = "500"]
    /\ UNCHANGED <<conn, threads, instruments, market_orders, limit_orders, topology, connected,
                   market_q, limit_q, cstate, cur, req, processed, last_result>>

NextUsers ==
    \/ \E t \in Threads, api_key \in ApiKeyInputs : user_lookup(t, api_key)
    \/ \E t \in Threads : user_commit(t)
    \/ create_instrument(BookTicker)
    \/ \E api_key \in ApiKeyInputs, d \in Direction :
         create_market_order_upto(PoolOrders, api_key, BookTicker, d, 1)
    \/ \E api_key \in ApiKeyInputs, d \in Direction :
         create_limit_order_upto(PoolOrders, api_key, BookTicker, d, 1, 1)
    \/ publish_order(TRUE, TRUE)
    \/ return_order
    \/ deliver_market(BookConsumer)
    \/ deliver_limit(BookConsumer)
    \/ process_market_order(BookConsumer)
    \/ process_limit_order(BookConsumer)

SpecUsers == InitPool /\ [][NextUsers]_vars

\* ------------------------------------------------------------------ specification: fair scheduling

\* One user, one instrument, the topology declared and one consumer that is
\* never stopped.  The connection to the broker can fail at any publish.  The
\* API finishes the request it serves, the broker delivers what it holds to
\* the idle consumer, and a started callback runs to its end.
LiveOrders == 2

NextLive ==
    \/ \E d \in Direction : create_market_order_upto(LiveOrders, BookKey, BookTicker, d, 1)
    \/ \E d \in Direction : create_limit_order_upto(LiveOrders, BookKey, BookTicker, d, 1, 1)
    \/ \E connect_ok, publish_ok \in BOOLEAN : publish_order(connect_ok, publish_ok)
    \/ return_order
    \/ deliver_market(BookConsumer)
    \/ deliver_limit(BookConsumer)
    \/ process_market_order(BookConsumer)
    \/ process_limit_order(BookConsumer)

SpecLive ==
    /\ InitBook
    /\ [][NextLive]_vars
    /\ WF_vars(\E connect_ok, publish_ok \in BOOLEAN : publish_order(connect_ok, publish_ok))
    /\ WF_vars(return_order)
    /\ WF_vars(deliver_market(BookConsumer))
    /\ WF_vars(deliver_limit(BookConsumer))
    /\ WF_vars(process_market_order(BookConsumer))
    /\ WF_vars(process_limit_order(BookConsumer))

\* ------------------------------------------------------------------ specification: failing handlers

\* The handlers with the exceptions their try blocks can meet.  The queues are
\* durable and outlive the database file: each starts with one message left
\* from an order that the tables no longer hold.
FaultOrders == 1

StaleMessage(order_type) ==
    [order_id |-> FaultOrders + 1, order_type |-> order_type, user_id |-> 1,
     ticker |-> BookTicker, direction |-> "BUY", qty |-> 1,
     price |-> IF order_type = "limit" THEN 1 ELSE 0, timestamp |-> 1]

\* json.loads / OrderMessage(**order_data), the query, db.commit()
RaiseAt == {"parse", "lookup", "commit"}

\* An except branch that acks.
AckAnyway == "ack"

\* except Exception: ch.basic_nack(delivery_tag, requeue=False)
ErrorSettlement == "nack"

\* A handler whose try block raises: the error is logged and the delivery is
\* nacked without requeue, so the broker drops the message (no dead-letter
\* exchange is declared); db.close() rolls back what was not committed.
\* db.commit() is only reached by the market handler, for a row it found.
handler_raises(c, at) ==
    /\ cstate[c] = "busy"
    /\ at = "commit" =>
         /\ cur[c].queue = "market_orders"
         /\ cur[c].body.order_id \in DOMAIN market_orders
    /\ last_result' = ErrorSettlement
    /\ cur' = [cur EXCEPT ![c] = NoDelivery]
    /\ cstate' = [cstate EXCEPT ![c] = "idle"]
    /\ UNCHANGED <<conn, user_threads, users, instruments, market_orders, limit_orders, topology,
                   connected, market_q, limit_q, req, processed, threads>>

\* basic_ack (or the basic_nack of the except branch) raises because the
\* connection is gone: the second raise leaves the callback, start_consuming
\* logs it and returns, the process ends, and the broker requeues the
\* delivery nobody settled.  after_commit: the handler had committed.
settle_raises(c, after_commit) ==
    /\ cstate[c] = "busy"
    /\ cstate' = [cstate EXCEPT ![c] = "stopped"]
    /\ cur' = [cur EXCEPT ![c] = NoDelivery]
    /\ market_q' = IF cur[c].queue = "market_orders"
                   THEN <<cur[c].body>> \o market_q ELSE market_q
    /\ limit_q' = IF cur[c].queue = "limit_orders"
                  THEN <<cur[c].body>> \o limit_q ELSE limit_q
    /\ market_orders' = IF cur[c].queue = "market_orders" /\ after_commit
                        THEN MarketOrderProcessed(cur[c].body.order_id)
                        ELSE market_orders
    /\ processed' = IF after_commit
                    THEN processed \cup {cur[c].body.order_id} ELSE processed
    /\ UNCHANGED <<conn, user_threads, users, instruments, limit_orders, topology, connected, req,
                   last_result, threads>>

InitFault ==
    /\ users = {[id |-> 1, api_key |-> BookKey]}
    /\ instruments = {[id |-> 1, ticker |-> BookTicker]}
    /\ market_orders = <<>>
    /\ limit_orders = <<>>
    /\ topology = "full"
    /\ connected = TRUE
    /\ market_q = <<StaleMessage("market")>>
    /\ limit_q = <<StaleMessage("limit")>>
    /\ cstate = [c \in Consumers |-> IF c = BookConsumer THEN "idle" ELSE "stopped"]
    /\ cur = [c \in Consumers |-> NoDelivery]
    /\ req = NoReq
    /\ processed = {}
    /\ last_result = "none"
    /\ threads = [t \in Threads |-> NoCall]
    /\ user_threads = [t \in Threads |-> NoUserCall]
    /\ conn = NoConnect

NextFault ==
    \/ \E d \in Direction : create_market_order_upto(FaultOrders, BookKey, BookTicker, d, 1)
    \/ \E d \in Direction : create_limit_order_upto(FaultOrders, BookKey, BookTicker, d, 1, 1)
    \/ publish_order(TRUE, TRUE)
    \/ return_order
    \/ start_consuming(BookConsumer, TRUE)
    \/ deliver_market(BookConsumer)
    \/ deliver_limit(BookConsumer)
    \/ process_market_order(BookConsumer)
    \/ process_limit_order(BookConsumer)
    \/ \E at \in RaiseAt : handler_raises(BookConsumer, at)
    \/ \E after_commit \in BOOLEAN : settle_raises(BookConsumer, after_commit)

SpecFault == InitFault /\ [][NextFault]_vars

\* ------------------------------------------------------------------ specification: connect

\* RabbitMQConnection.connect, one step per attempt and per wait.
\* max_retries: int = 3
max_retries == 3

\* What pika.BlockingConnection(parameters) and connection.channel() can do at
\* one attempt: succeed, or raise.  AMQPChannelError stands for an exception of
\* connection.channel(), raised after self.connection was assigned.
AttemptOutcomes ==
    {"ok", "AMQPConnectionError", "ProbableAuthenticationError",
     "ConnectionRefusedError", "AMQPChannelError"}

\* The except clauses of the try, in the order they are written.
ExceptClauses ==
    <<"AMQPConnectionError", "ProbableAuthenticationError",
      "ConnectionRefusedError", "Exception">>

\* isinstance(exc, cls): pika declares
\* class ProbableAuthenticationError(AMQPConnectionError).
IsA(exc, cls) ==
    \/ exc = cls
    \/ cls = "Exception"
    \/ exc = "ProbableAuthenticationError" /\ cls = "AMQPConnectionError"

\* The clause that handles exc: the first one it is an instance of.
Caught(exc) ==
    ExceptClauses[CHOOSE i \in 1..Len(ExceptClauses) :
                    /\ IsA(exc, ExceptClauses[i])
                    /\ \A j \in 1..(i - 1) : ~IsA(exc, ExceptClauses[j])]

\* Only the ProbableAuthenticationError clause ends with break.
Breaks(exc) == Caught(exc) = "ProbableAuthenticationError"

\* connect() is called: for attempt in range(self.max_retries)
connect_call ==
    /\ conn.pc = "idle"
    /\ conn' = IF max_retries = 0
               THEN [NoConnect EXCEPT !.pc = "returned", !.result = "False"]
               ELSE [NoConnect EXCEPT !.pc = "trying"]
    /\ UNCHANGED <<users, instruments, market_orders, limit_orders, topology,
                   connected, market_q, limit_q, cstate, cur, req, processed,
                   last_result, threads, user_threads>>

\* One pass of the try block and its except clauses, up to the sleep.
connect_attempt(outcome) ==
    /\ conn.pc = "trying"
    /\ LET attempt == Len(conn.outcomes)
           tried == [conn EXCEPT !.outcomes = Append(conn.outcomes, outcome)]
       IN  IF outcome = "ok"
           THEN /\ conn' = [tried EXCEPT !.pc = "returned", !.result = "True",
                                         !.connection = TRUE, !.channel = TRUE]
                /\ connected' = TRUE
           ELSE /\ conn' = [tried EXCEPT
                              !.connection = conn.connection \/ outcome = "AMQPChannelError",
                              !.pc = IF Breaks(outcome) \/ ~(attempt < max_retries - 1)
                                     THEN "returned" ELSE "sleeping",
                              !.result = IF Breaks(outcome) \/ ~(attempt < max_retries - 1)
                                         THEN "False" ELSE "none"]
                /\ UNCHANGED connected
    /\ UNCHANGED <<users, instruments, market_orders, limit_orders, topology,
                   market_q, limit_q, cstate, cur, req, processed, last_result,
                   threads, user_threads>>

\* time.sleep(self.retry_delay), then the next attempt
connect_sleep ==
    /\ conn.pc = "sleeping"
    /\ conn' = [conn EXCEPT !.pc = "trying", !.sleeps = conn.sleeps + 1]
    /\ UNCHANGED <<users, instruments, market_orders, limit_orders, topology,
                   connected, market_q, limit_q, cstate, cur, req, processed,
                   last_result, threads, user_threads>>

InitConnect ==
    /\ users = {}
    /\ instruments = {}
    /\ market_orders = <<>>
    /\ limit_orders = <<>>
    /\ topology = "none"
    /\ connected = FALSE
    /\ market_q = <<>>
    /\ limit_q = <<>>
    /\ cstate = [c \in Consumers |-> "stopped"]
    /\ cur = [c \in Consumers |-> NoDelivery]
    /\ req = NoReq
    /\ processed = {}
    /\ last_result = "none"
    /\ threads = [t \in Threads |-> NoCall]
    /\ user_threads = [t \in Threads |-> NoUserCall]
    /\ conn = NoConnect

NextConnect ==
    \/ connect_call
    \/ \E outcome \in AttemptOutcomes : connect_attempt(outcome)
    \/ connect_sleep

SpecConnect == InitConnect /\ [][NextConnect]_vars

\* ------------------------------------------------------------------ vocabulary of the claims

AllOrderIds == DOMAIN market_orders \cup DOMAIN limit_orders

OrderRow(id) == IF id \in DOMAIN market_orders THEN market_orders[id] ELSE limit_orders[id]

\* Statuses from which the order state machine has no way out.
Terminal == {"EXECUTED", "CANCELLED"}

\* NEW -> PART_EXECUTED, NEW | PART_EXECUTED -> EXECUTED | CANCELLED,
\* PART_EXECUTED -> PART_EXECUTED
Transitions ==
    {<<"NEW", "PART_EXECUTED">>, <<"NEW", "EXECUTED">>, <<"NEW", "CANCELLED">>,
     <<"PART_EXECUTED", "PART_EXECUTED">>, <<"PART_EXECUTED", "EXECUTED">>,
     <<"PART_EXECUTED", "CANCELLED">>}

\* Consumer c's market / limit handler runs to its basic_ack in this step.
MarketHandled(c) ==
    cstate[c] = "busy" /\ cur[c].queue = "market_orders" /\ cstate'[c] = "idle"

LimitHandled(c) ==
    cstate[c] = "busy" /\ cur[c].queue = "limit_orders" /\ cstate'[c] = "idle"

\* Every message the broker holds or a callback is handling.
MessagesInFlight ==
    {market_q[i] : i \in 1..Len(market_q)} \cup {limit_q[i] : i \in 1..Len(limit_q)}
      \cup {cur[c].body : c \in {x \in Consumers : cstate[x] = "busy"}}

MessageTable(m) == IF m.order_type = "market" THEN market_orders ELSE limit_orders

\* ------------------------------------------------------------------ claims

\* C1: a market order processed while no unfilled limit order rests on the
\* opposite side of its instrument ends CANCELLED (and is never executed).
C1_NoLiquidityCancels ==
    [][\A c \in Consumers :
         LET id == cur[c].body.order_id IN
         (MarketHandled(c) /\ id \in DOMAIN market_orders
            /\ OppositeLiquidity(market_orders[id]) = {})
           => market_orders'[id].status = "CANCELLED"]_vars

\* C2: the market handler, run for a message whose order_id is in
\* market_orders, sets that row's status to EXECUTED and changes nothing else
\* of either order table, whatever the row's direction and qty and whatever
\* other orders exist.
C2_MarketStub ==
    [][\A c \in Consumers :
         LET id == cur[c].body.order_id IN
         (MarketHandled(c) /\ id \in DOMAIN market_orders)
           => /\ market_orders' = [market_orders EXCEPT ![id].status = "EXECUTED"]
              /\ limit_orders' = limit_orders]_vars

\* C2 witness: a market order was executed by an acked handler run while an
\* unfilled limit order rests opposite it.
C2_Witness ==
    \E id \in DOMAIN market_orders :
        /\ market_orders[id].status = "EXECUTED"
        /\ id \in processed
        /\ last_result = "ack"
        /\ OppositeLiquidity(market_orders[id]) # {}

\* C3: every limit order has status NEW in every reachable state, and a run
\* of the limit handler changes no row of either order table.
C3_LimitStub ==
    /\ [](\A id \in DOMAIN limit_orders : limit_orders[id].status = "NEW")
    /\ [][\A c \in Consumers :
            LimitHandled(c) => /\ limit_orders' = limit_orders
                               /\ market_orders' = market_orders]_vars

\* C3 witness: a limit order whose message was handled, beside an executed
\* market order.
C3_Witness ==
    /\ \E id \in DOMAIN limit_orders : id \in processed
    /\ \E id \in DOMAIN market_orders : market_orders[id].status = "EXECUTED"

\* C4: a submission that was answered got exactly one response: a 200 with
\* exactly one new row, which is the row the response names, or an error with
\* no new row; and no submission is past validation without its one row.
C4_OneOutcome ==
    /\ Len(req.responses) <= 1
    /\ req.stage = "done" =>
         \/ /\ req.responses = <<"200">>
            /\ OrderCount = req.orders_before + 1
            /\ req.order_id \in (IF req.kind = "market" THEN DOMAIN market_orders
                                 ELSE DOMAIN limit_orders)
         \/ /\ req.responses \in {<<"401">>, <<"404">>, <<"422">>}
            /\ OrderCount = req.orders_before
    /\ req.stage \in {"committed", "published"} =>
         /\ req.responses = <<>>
         /\ OrderCount = req.orders_before + 1

\* C4 witness: the second order was answered with 200.
C4_Witness ==
    /\ req.stage = "done"
    /\ req.responses = <<"200">>
    /\ req.orders_before = 1

\* C5: when a handler is at its publish, past it, or has answered 200, the
\* row is in its table; and every message in a queue or in a callback names a
\* row of the table of its type.
C5_DurableBeforeAck ==
    /\ (req.stage \in {"committed", "published"}
          \/ (req.stage = "done" /\ req.responses = <<"200">>)) =>
         req.order_id \in (IF req.kind = "market" THEN DOMAIN market_orders
                           ELSE DOMAIN limit_orders)
    /\ \A m \in MessagesInFlight : m.order_id \in DOMAIN MessageTable(m)

\* C5 witness: a consumer is handling the message of an order whose request
\* has not returned yet.
C5_Witness ==
    /\ req.stage = "published"
    /\ \E c \in Consumers : cstate[c] = "busy" /\ cur[c].body.order_id = req.order_id

\* C6: a handler run for an order whose status is terminal fails (the
\* delivery is not acked) and changes no order.
C6_TerminalGuarded ==
    [][\A c \in Consumers :
         LET id == cur[c].body.order_id IN
         ((MarketHandled(c) \/ LimitHandled(c)) /\ id \in AllOrderIds
            /\ OrderRow(id).status \in Terminal)
           => /\ last_result' = "nack"
              /\ market_orders' = market_orders
              /\ limit_orders' = limit_orders]_vars

\* C7: a row enters its table with status NEW, and a row's status changes
\* only along NEW -> PART_EXECUTED -> EXECUTED | CANCELLED (NEW may skip
\* PART_EXECUTED, PART_EXECUTED may repeat): never back to NEW, never out of
\* EXECUTED or CANCELLED.
C7_StatusMachine ==
    [][\/ UNCHANGED <<market_orders, limit_orders>>
       \/ /\ \A id \in DOMAIN market_orders' :
               IF id \in DOMAIN market_orders
               THEN \/ market_orders'[id].status = market_orders[id].status
                    \/ <<market_orders[id].status, market_orders'[id].status>>
                         \in Transitions
               ELSE market_orders'[id].status = "NEW"
          /\ \A id \in DOMAIN limit_orders' :
               IF id \in DOMAIN limit_orders
               THEN \/ limit_orders'[id].status = limit_orders[id].status
                    \/ <<limit_orders[id].status, limit_orders'[id].status>>
                         \in Transitions
               ELSE limit_orders'[id].status = "NEW"]_vars

\* C7 witness: an executed market order whose message is back in the queue
\* (it will be handled again), beside an order that is still NEW.
C7_Witness ==
    /\ \E i \in 1..Len(market_q) :
         market_orders[market_q[i].order_id].status = "EXECUTED"
    /\ \E id \in AllOrderIds : OrderRow(id).status = "NEW"

\* Order ids whose message waits in a broker queue.
Queued ==
    {market_q[i].order_id : i \in 1..Len(market_q)}
      \cup {limit_q[i].order_id : i \in 1..Len(limit_q)}

\* C8: of two orders of one instrument, the one committed later is never
\* handled before the earlier one; stated for the case that decides it, the
\* earlier order's message still waiting in its queue when the later order
\* has been handled.
C8_SubmissionOrder ==
    \A i, j \in AllOrderIds :
        (i < j /\ OrderRow(i).instrument_id = OrderRow(j).instrument_id
           /\ j \in processed /\ i \in Queued)
          => i \in processed

\* C9: no two callbacks are handling orders of the same instrument at once.
C9_OneAtATime ==
    \A c1, c2 \in Consumers :
        (c1 # c2 /\ cstate[c1] = "busy" /\ cstate[c2] = "busy")
          => cur[c1].body.ticker # cur[c2].body.ticker

\* C10: every order row has qty >= 1, the id of an existing instrument and the
\* id of an existing user; every limit row has price > 0; every message has
\* qty >= 1, an existing ticker, an existing user and, if limit, price > 0;
\* and the row a request created belongs to the user whose key it presented.
C10_OnlyValidated ==
    /\ \A id \in AllOrderIds :
         /\ OrderRow(id).qty >= 1
         /\ OrderRow(id).instrument_id \in {i.id : i \in instruments}
         /\ OrderRow(id).user_id \in {u.id : u \in users}
    /\ \A id \in DOMAIN limit_orders : limit_orders[id].price > 0
    /\ \A m \in MessagesInFlight :
         /\ m.qty >= 1
         /\ m.ticker \in {i.ticker : i \in instruments}
         /\ m.user_id \in {u.id : u \in users}
         /\ m.order_type = "limit" => m.price > 0
    /\ req.stage \in {"committed", "published"} =>
         db_order.user_id \in {u.id : u \in get_user_by_api_key(req.api_key)}

\* C10 witness: a limit order's message is in its queue while a market order's
\* request is at its publish.
C10_Witness ==
    /\ limit_q # <<>>
    /\ req.stage = "committed"
    /\ req.kind = "market"

\* C11: a step in which create_market_order or create_limit_order answers
\* with an error (seen as a new response while no request is in progress) (401 only if some presented key is no user's, 404 only if
\* some presented ticker is no instrument's) leaves users, instruments, both
\* order tables and both queues unchanged; and the only other way such a
\* request leaves the free API, its commit, takes a key of a user, a ticker of
\* an instrument, a qty >= 1 and (limit) a price > 0.
C11_RejectionNoEffect ==
    [][/\ (ApiFree /\ req'.stage = "done" /\ req' # req) =>
            /\ req'.responses \in {<<"401">>, <<"404">>, <<"422">>}
            /\ req'.responses = <<"401">> =>
                 \E k \in ApiKeyInputs : \A u \in users : u.api_key # k
            /\ req'.responses = <<"404">> =>
                 \E t \in TickerInputs : \A i \in instruments : i.ticker # t
            /\ UNCHANGED <<users, instruments, market_orders, limit_orders,
                           market_q, limit_q>>
       /\ (ApiFree /\ req'.stage # "done" /\ req' # req) =>
            /\ req'.stage = "committed"
            /\ \E u \in users : u.api_key = req'.api_key
            /\ \E i \in instruments : i.ticker = req'.ticker
            /\ ~(req'.qty < 1)
            /\ req'.kind = "limit" => ~(req'.price <= 0)]_vars

\* C11 witness: a request with an unknown ticker was answered 404 while an
\* order exists and a message waits in a queue.
C11_Witness ==
    /\ req.stage = "done"
    /\ req.responses = <<"404">>
    /\ AllOrderIds # {}
    /\ market_q # <<>>

\* Limit orders that rest on the book: handled by the consumer, not filled and
\* not cancelled.
Resting ==
    {id \in DOMAIN limit_orders :
        id \in processed /\ limit_orders[id].status \in {"NEW", "PART_EXECUTED"}}

\* C12: while no handler is running, any resting BUY limit order and resting
\* SELL limit order of one instrument have the BUY price strictly below the
\* SELL price.
C12_NoCrossedBook ==
    (\A c \in Consumers : cstate[c] # "busy") =>
       \A b, s \in Resting :
          (/\ limit_orders[b].instrument_id = limit_orders[s].instrument_id
           /\ limit_orders[b].direction = "BUY"
           /\ limit_orders[s].direction = "SELL")
            => limit_orders[b].price < limit_orders[s].price

\* The order has traded: part or all of its quantity is filled.
Filled(row) == row.status \in {"PART_EXECUTED", "EXECUTED"}

C14_CrossingTrades ==
    \A b, s \in DOMAIN limit_orders :
       (/\ AllOrderIds = {b, s}
        /\ {b, s} \subseteq processed
        /\ \A c \in Consumers : cstate[c] # "busy"
        /\ limit_orders[b].timestamp < limit_orders[s].timestamp
        /\ limit_orders[b].direction = "BUY"
        /\ limit_orders[b].qty = 10 /\ limit_orders[b].price = 100
        /\ limit_orders[s].direction = "SELL"
        /\ limit_orders[s].qty = 5 /\ limit_orders[s].price = 100)
         => /\ limit_orders[b].status = "PART_EXECUTED"
            /\ limit_orders[s].status = "EXECUTED"

\* C15: every step keeps every stored order in its table under its id, with
\* the same user_id, instrument_id, direction, qty, price and timestamp: of an
\* existing row a step changes at most the status.
C15_ImmutableFields ==
    [][\/ UNCHANGED <<market_orders, limit_orders>>
       \/ /\ \A id \in DOMAIN market_orders :
               /\ id \in DOMAIN market_orders'
               /\ market_orders'[id] =
                    [market_orders[id] EXCEPT !.status = market_orders'[id].status]
          /\ \A id \in DOMAIN limit_orders :
               /\ id \in DOMAIN limit_orders'
               /\ limit_orders'[id] =
                    [limit_orders[id] EXCEPT !.status = limit_orders'[id].status]
          /\ DOMAIN market_orders' \cap DOMAIN limit_orders = {}
          /\ DOMAIN limit_orders' \cap DOMAIN market_orders = {}]_vars

\* C15 witness: a market order and a limit order have both been processed, the
\* market order's status changed by it.
C15_Witness ==
    \E m \in DOMAIN market_orders, l \in DOMAIN limit_orders :
       /\ {m, l} \subseteq processed
       /\ market_orders[m].status = "EXECUTED"
       /\ market_orders[m].timestamp = m

\* C16: after every step no two instruments share a ticker and every
\* instrument that existed is still there, unmodified; and a create_instrument
\* call that comes back, at its lookup or at its commit, while its ticker is
\* stored is answered with an error (400, or 500 when it lost a race) and
\* leaves the instruments unchanged.
C16_TickerFunction ==
    [][/\ \A i, j \in instruments' : i.ticker = j.ticker => i = j
       /\ instruments \subseteq instruments'
       /\ \A t \in Threads :
            (/\ threads'[t] # threads[t]
             /\ threads'[t].pc = "idle"
             /\ \E i \in instruments : i.ticker = threads'[t].ticker)
              => /\ threads'[t].response \in {"400", "500"}
                 /\ UNCHANGED instruments]_vars

\* C16 witness: two calls for one ticker ran side by side, one inserted and
\* the other was refused at its commit; an order refers to the instrument.
C16_Witness ==
    \E t, u \in Threads :
       /\ threads[t].response = "200" /\ threads[u].response = "500"
       /\ threads[t].ticker = threads[u].ticker
       /\ \E i \in instruments : i.ticker = threads[t].ticker
       /\ AllOrderIds # {}

\* The market order id is stored with status EXECUTED.
Executed(id) == id \in DOMAIN market_orders /\ market_orders[id].status = "EXECUTED"

C18_SettledExactlyOnce ==
    [][\A c \in Consumers :
         (cstate[c] = "busy" /\ cstate'[c] # "busy")
           => /\ last_result' \in {"ack", "nack"}
              /\ cur[c].body \notin MessagesInFlight']_vars

\* C18 amended: a callback that returns has settled its delivery, so that the
\* broker no longer holds the message; it acked only with the status update
\* committed (market) or nothing to commit (limit, or no such order), in which
\* case no table changed; it nacked when parsing, lookup or commit raised, and
\* then no table changed; a handler that finds no order acks.  A callback left
\* by an exception of the settling call leaves the message with the broker.
C18_SettleRules ==
    [][\A c \in Consumers :
         LET m == cur[c].body
             id == m.order_id
             known == id \in DOMAIN MessageTable(m)
         IN
         /\ (cstate[c] = "busy" /\ cstate'[c] = "idle")
              => /\ last_result' \in {"ack", "nack"}
                 /\ m \notin MessagesInFlight'
                 /\ last_result' = "ack" =>
                      IF known /\ m.order_type = "market"
                      THEN /\ market_orders' =
                                [market_orders EXCEPT ![id].status = "EXECUTED"]
                           /\ UNCHANGED limit_orders
                      ELSE UNCHANGED <<market_orders, limit_orders>>
                 /\ last_result' = "nack" => UNCHANGED <<market_orders, limit_orders>>
         /\ (cstate[c] = "busy" /\ \E at \in RaiseAt : handler_raises(c, at))
              => last_result' = "nack"
         /\ (cstate[c] = "busy" /\ ~known
               /\ (process_market_order(c) \/ process_limit_order(c)))
              => /\ last_result' = "ack"
                 /\ UNCHANGED <<market_orders, limit_orders>>
         /\ (cstate[c] = "busy" /\ cstate'[c] = "stopped")
              => m \in MessagesInFlight']_vars

\* C18 witness: the last delivery was nacked, the order it named is stored and
\* still NEW, the broker has dropped its message, and the messages left from
\* unknown orders are gone too.
C18_Witness ==
    /\ last_result = "nack"
    /\ market_q = <<>> /\ limit_q = <<>>
    /\ \A c \in Consumers : cstate[c] # "busy"
    /\ \E id \in DOMAIN market_orders :
         market_orders[id].status = "NEW" /\ req.stage = "done" /\ req.order_id = id

\* The orders that are stored, that no handler has looked up, that no message
\* names and whose request is past its publish: nothing will ever deliver them.
LostIds ==
    AllOrderIds \ (processed \cup {m.order_id : m \in MessagesInFlight}
                     \cup (IF req.stage = "committed" THEN {req.order_id} ELSE {}))

Lost(id) == id \in LostIds

\* C19: a publish_order that cannot reconnect or whose basic_publish raises
\* returns False, enqueues nothing and leaves the order stored, NEW and lost;
\* the request whose publish returned False is answered 200 with status NEW
\* for the stored row; and in every step a lost order stays lost and stored
\* with every column, status included, as it was.
C19_BestEffortPublish ==
    [][/\ req.stage = "committed" =>
            \A connect_ok, publish_ok \in BOOLEAN :
               (/\ publish_order(connect_ok, publish_ok)
                /\ (~connected /\ ~connect_ok) \/ ~publish_ok)
                 => /\ ~req'.published
                    /\ UNCHANGED <<market_q, limit_q, market_orders, limit_orders>>
                    /\ Lost(req.order_id)'
                    /\ OrderRow(req.order_id)'.status = "NEW"
       /\ (req.stage = "published" /\ ~req.published /\ req' # req)
            => /\ req'.stage = "done"
               /\ req'.responses = <<"200">>
               /\ req'.status = "NEW"
               /\ req'.order_id = req.order_id
               /\ req.order_id \in AllOrderIds'
       /\ \/ /\ UNCHANGED <<market_orders, limit_orders, market_q, limit_q, cur,
                            cstate, processed>>
             /\ req'.stage # "committed"
          \/ /\ LostIds \subseteq LostIds'
             /\ \A id \in LostIds : OrderRow(id)' = OrderRow(id)]_vars

\* C19 witness: the last request was answered 200, its publish had failed and
\* its order is lost and NEW, while the topology is declared, a consumer is
\* idle and another order has been handled.
C19_Witness ==
    /\ req.stage = "done" /\ req.responses = <<"200">>
    /\ Lost(req.order_id)
    /\ OrderRow(req.order_id).status = "NEW"
    /\ topology = "full"
    /\ \E c \in Consumers : cstate[c] = "idle"
    /\ processed # {}

\* C20: every publish_order that hands a message to the broker finds the
\* exchange declared and bound to both queues, and every consumer that
\* becomes subscribed finds the queues declared.
C20_TopologyBeforeUse ==
    [][/\ (req.stage = "committed" /\ req'.stage = "published" /\ req'.published)
            => topology = "full"
       /\ \A c \in Consumers :
            (cstate[c] = "stopped" /\ cstate'[c] = "idle") => topology # "none"]_vars

\* C21: connect makes at most max_retries attempts; it has returned True
\* exactly when its last attempt succeeded, then with connection and channel
\* set; it has returned False only after an authentication error or after
\* max_retries failed attempts; an authentication error is the last attempt
\* made; and it has waited once between two attempts, never after the last.
C21_ConnectRetries ==
    LET n == Len(conn.outcomes) IN
    /\ n <= max_retries
    /\ \A i \in 1..n : conn.outcomes[i] = "ok" => i = n
    /\ \A i \in 1..n : conn.outcomes[i] = "ProbableAuthenticationError" => i = n
    /\ conn.sleeps <= n
    /\ conn.pc = "trying" => conn.sleeps = n
    /\ conn.pc = "sleeping" => conn.sleeps = n - 1
    /\ (conn.pc = "returned" /\ n > 0) =>
         /\ conn.sleeps = n - 1
         /\ conn.result = "True" <=> conn.outcomes[n] = "ok"
         /\ conn.result = "True" => conn.connection /\ conn.channel /\ connected
         /\ conn.result = "False" =>
              \/ n = max_retries
              \/ conn.outcomes[n] = "ProbableAuthenticationError"

\* C22: every message waiting in market_orders is a market order's and names
\* a row of market_orders, every message waiting in limit_orders is a limit
\* order's and names a row of limit_orders; a callback runs for the queue of
\* its message's type (process_market_order for market_orders,
\* process_limit_order for limit_orders); and no limit order is EXECUTED.
C22_RoutedToOwnHandler ==
    /\ \A i \in 1..Len(market_q) :
         /\ market_q[i].order_type = "market"
         /\ market_q[i].order_id \in DOMAIN market_orders
         /\ market_q[i].order_id \notin DOMAIN limit_orders
    /\ \A i \in 1..Len(limit_q) :
         /\ limit_q[i].order_type = "limit"
         /\ limit_q[i].order_id \in DOMAIN limit_orders
         /\ limit_q[i].order_id \notin DOMAIN market_orders
    /\ \A c \in Consumers :
         cstate[c] = "busy" =>
            \/ /\ cur[c].queue = "market_orders"
               /\ cur[c].body.order_type = "market"
               /\ cur[c].body.order_id \in DOMAIN market_orders
            \/ /\ cur[c].queue = "limit_orders"
               /\ cur[c].body.order_type = "limit"
               /\ cur[c].body.order_id \in DOMAIN limit_orders
    /\ \A id \in DOMAIN limit_orders : limit_orders[id].status # "EXECUTED"

\* C22 witness: one consumer runs the limit callback for a limit order while
\* the other runs the market callback for a market order.
C22_Witness ==
    \E c1, c2 \in Consumers :
       /\ cstate[c1] = "busy" /\ cur[c1].queue = "limit_orders"
       /\ cstate[c2] = "busy" /\ cur[c2].queue = "market_orders"
       /\ cur[c1].body.order_id \in DOMAIN limit_orders
       /\ cur[c2].body.order_id \in DOMAIN market_orders

\* C23: after every step no two users share an api_key and every user that
\* existed is still there, unmodified; and a create_user call that comes
\* back, at its lookup or at its commit, while its api_key is stored is
\* answered with an error (400, or 500 when it lost a race) and leaves the
\* users unchanged.
C23_ApiKeyIdentifies ==
    [][/\ \A u, v \in users' : u.api_key = v.api_key => u = v
       /\ users \subseteq users'
       /\ \A t \in Threads :
            (/\ user_threads'[t] # user_threads[t]
             /\ user_threads'[t].pc = "idle"
             /\ \E u \in users : u.api_key = user_threads'[t].api_key)
              => /\ user_threads'[t].response \in {"400", "500"}
                 /\ UNCHANGED users]_vars

\* C23 witness: two calls for one api_key ran side by side, one inserted and
\* the other was refused at its commit; the user has placed an order.
C23_Witness ==
    \E t, u \in Threads :
       /\ user_threads[t].response = "200" /\ user_threads[u].response = "500"
       /\ user_threads[t].api_key = user_threads[u].api_key
       /\ Cardinality({x \in users : x.api_key = user_threads[t].api_key}) = 1
       /\ AllOrderIds # {}
====
